---- MODULE Spec2Model ----
(***************************************************************************)
(* Model of corr2d, the two-dimensional cross-correlation of               *)
(* chapter_convolutional-neural-networks/conv-layer.ipynb, and of the      *)
(* notebook session that calls it.                                         *)
(*                                                                         *)
(* Tensors live on a heap and are named by reference, as Python names      *)
(* are: X, K and Y are heap addresses, so that aliasing between the        *)
(* arguments and the result is something the model can get wrong.          *)
(* Elements are integers: the properties studied here are exact on the     *)
(* small integer values float32 represents exactly.                        *)
(*                                                                         *)
(* The same module models Conv2D.forward of that notebook, which adds a    *)
(* bias to corr2d's result, and three functions that keep no state         *)
(* between calls: try_gpu and try_all_gpus, Classifier.accuracy, and       *)
(* CenteredLayer.forward. A call of one of these is a single step from     *)
(* its arguments to its result.                                            *)
(***************************************************************************)
EXTENDS Integers, Sequences, FiniteSets, TLC

\* ---------------------------------------------------------------- bounds
\* Inputs have 1..MaxDim rows and columns; kernels have 1..MaxDim+1, so a
\* kernel can exceed the input by one or by two along an axis.
MaxDim == 3
\* Coefficients of the initial tensors' elements are at most MaxVal in size.
MaxVal == 1
\* Calls of corr2d in one session.
MaxCalls == 3
\* Element writes by the session after its calls.
MaxWrites == 1
\* The machine has 0..MaxGpus GPUs.
MaxGpus == 8
\* Device indices asked for are -MaxIndex..MaxIndex; the notebook asks for 10.
MaxIndex == 10
\* Score matrices have 0..MaxRows rows and 1..MaxClasses columns.
MaxRows == 2
MaxClasses == 2
\* Inputs of CenteredLayer have 1..MaxLen elements, integers of size at most
\* MaxElem; a float is a whole number of units of 1/Scale.
MaxLen == 3
MaxElem == 2
Scale == 4
\* Images and patches have sides 1..MaxImg; a vision Transformer has
\* 1..MaxHiddens hidden units and 0..MaxBlks blocks; batches have
\* 1..MaxBatch images.
MaxImg == 4
MaxHiddens == 2
MaxBlks == 2
MaxBatch == 2
\* Input sequences of the bidirectional RNN have 0..MaxSteps time steps, each
\* input one of 1..MaxTokens.
MaxSteps == 3
MaxTokens == 3

VARIABLES
    heap,     \* sequence of tensors; an address is an index into it
    X, K,     \* arguments of the running call (addresses), 0 when idle
    h, w,     \* locals of corr2d: K.shape
    Y,        \* local of corr2d: the output tensor (address), 0 before np.zeros
    i, j,     \* loop variables of corr2d
    pc,       \* "idle" or the statement corr2d executes next
    todo,     \* output coordinates not yet assigned by the running call
    log,      \* history: the calls that have ended
    dirty,    \* history: addresses the session has written to
    ncalls, nwrites,
    ngpus,    \* torch.cuda.device_count()
    call,     \* the last call of a function that keeps no state: name, arguments
    ret,      \* what that call returned
    net,      \* the nn.Module a session has built: its attributes
    frame,    \* the locals of the module's running forward
    step      \* "idle" or the statement that forward executes next

\* The state of corr2d and its session, and the state of the calls of
\* try_gpu, try_all_gpus, Classifier.accuracy and CenteredLayer.forward.
corr == <<heap, X, K, h, w, Y, i, j, pc, todo, log, dirty, ncalls, nwrites>>
pure == <<ngpus, call, ret>>
nets == <<net, frame, step>>
vars == <<heap, X, K, h, w, Y, i, j, pc, todo, log, dirty, ncalls, nwrites, ngpus, call, ret,
          net, frame, step>>

\* ---------------------------------------------------------------- tensors
Min(a, b) == IF a < b THEN a ELSE b
Max(a, b) == IF a > b THEN a ELSE b

\* The index set of a tensor of shape (hh, ww).
Cells(hh, ww) == (0 .. hh - 1) \X (0 .. ww - 1)

\* np.zeros((hh, ww)) for hh, ww >= 0; 0 along an axis gives an empty tensor.
zeros(hh, ww) == [h |-> hh, w |-> ww, d |-> [rc \in Cells(hh, ww) |-> 0]]

\* The tensor of shape (hh, ww) holding base, base+1, ... in row-major order.
arange(hh, ww, base) ==
    [h |-> hh, w |-> ww, d |-> [rc \in Cells(hh, ww) |-> base + rc[1] * ww + rc[2]]]

\* The tensor of shape (hh, ww) whose element (r, c) is a*r + b*c + c0.
linear(hh, ww, a, b, c0) ==
    [h |-> hh, w |-> ww, d |-> [rc \in Cells(hh, ww) |-> a * rc[1] + b * rc[2] + c0]]

\* Slice with the last row and the last column of the window left out.
SliceShort(g, r0, r1, c0, c1) ==
    LET hh == Max(0, Min(r1 - 1, g.h) - Min(r0, g.h))
        ww == Max(0, Min(c1 - 1, g.w) - Min(c0, g.w))
    IN  [h |-> hh, w |-> ww,
         d |-> [rc \in Cells(hh, ww) |-> g.d[<<r0 + rc[1], c0 + rc[2]>>]]]

\* g[r0:r1, c0:c1] for non-negative bounds: a slice is clipped to the tensor.
Slice(g, r0, r1, c0, c1) ==
    LET hh == Max(0, Min(r1, g.h) - Min(r0, g.h))
        ww == Max(0, Min(c1, g.w) - Min(c0, g.w))
    IN  [h |-> hh, w |-> ww,
         d |-> [rc \in Cells(hh, ww) |-> g.d[<<r0 + rc[1], c0 + rc[2]>>]]]

\* a * b elementwise, for tensors of one shape.
SameShape(a, b) == a.h = b.h /\ a.w = b.w
Mul(a, b) == [h |-> a.h, w |-> a.w, d |-> [rc \in Cells(a.h, a.w) |-> a.d[rc] * b.d[rc]]]

\* a + b elementwise, for tensors of one shape.
Add(a, b) == [h |-> a.h, w |-> a.w, d |-> [rc \in Cells(a.h, a.w) |-> a.d[rc] + b.d[rc]]]

\* g.sum(): the first n elements in row-major order, added up.
RECURSIVE SumTo(_, _)
SumTo(g, n) ==
    IF n = 0 THEN 0
    ELSE SumTo(g, n - 1) + g.d[<<(n - 1) \div g.w, (n - 1) % g.w>>]
\* TensorSum with the accumulator started at 1.
TensorSumFromOne(g) == 1 + SumTo(g, g.h * g.w)

TensorSum(g) == SumTo(g, g.h * g.w)

\* g[r, c] = v
SetItem(g, r, c, v) == [g EXCEPT !.d[<<r, c>>] = v]

\* ---------------------------------------------------------------- session
InputShapes == (1 .. MaxDim) \X (1 .. MaxDim)
KernelShapes == (1 .. MaxDim + 1) \X (1 .. MaxDim + 1)
Vals == 0 .. MaxVal
KVals == (0 - MaxVal) .. MaxVal
\* What a record holds in place of a grid when the call raised.
NoGrid == zeros(0, 0)

Addrs == 1 .. Len(heap)

\* The frame of corr2d when no call is running.
NoFrame ==
    /\ X = 0 /\ K = 0 /\ Y = 0
    /\ h = 0 /\ w = 0 /\ i = 0 /\ j = 0
    /\ todo = {}

\* No module has been built.
NoNet ==
    /\ net = [class |-> "none"]
    /\ frame = [fn |-> "none"]
    /\ step = "idle"

\* No function other than corr2d has been called.
NoCall ==
    /\ ngpus = 0
    /\ call = [fn |-> "none"]
    /\ ret = [type |-> "none"]
    /\ NoNet

\* A call ends: its frame is dropped.
DropFrame ==
    /\ X' = 0 /\ K' = 0 /\ Y' = 0
    /\ h' = 0 /\ w' = 0 /\ i' = 0 /\ j' = 0
    /\ todo' = {}

\* The session holds an input at address 1 and a kernel at address 2: the
\* input a range, the kernel with elements a*r + b*c + c0, of any sign.
Init ==
    /\ \E xs \in InputShapes, ks \in KernelShapes, xb \in Vals, ka \in KVals,
          kb \in KVals, kc \in Vals :
           heap = <<arange(xs[1], xs[2], xb), linear(ks[1], ks[2], ka, kb, kc)>>
    /\ NoFrame
    /\ pc = "idle"
    /\ log = {}
    /\ dirty = {}
    /\ ncalls = 0
    /\ nwrites = 0
    /\ NoCall

\* The session calls corr2d(heap[xa], heap[ka]).
Enter(xa, ka) ==
    /\ pc = "idle"
    /\ X' = xa /\ K' = ka
    /\ pc' = "shape"
    /\ ncalls' = ncalls + 1
    /\ UNCHANGED <<heap, h, w, Y, i, j, todo, log, dirty, nwrites, pure, nets>>

\* corr2d(X, K) on the session's input and kernel, once.
Call ==
    /\ ncalls = 0
    /\ Enter(1, 2)

\* h, w = K.shape
Shape ==
    /\ pc = "shape"
    /\ h' = heap[K].h /\ w' = heap[K].w
    /\ pc' = "zeros"
    /\ UNCHANGED <<heap, X, K, Y, i, j, todo, log, dirty, ncalls, nwrites, pure, nets>>

\* np.zeros allocates: the new tensor gets an address no tensor has.
Alloc(hp, g) == Append(hp, g)

\* NewAddr naming the newest tensor there already is.
NewAddrLast(hp) == Len(hp)

NewAddr(hp) == Len(hp) + 1

\* OutShape without the + 1.
OutShapeNoPlusOne(x, hh, ww) == <<x.h - hh, x.w - ww>>

\* The shape handed to np.zeros: (X.shape[0] - h + 1, X.shape[1] - w + 1)
OutShape(x, hh, ww) == <<x.h - hh + 1, x.w - ww + 1>>

\* np.zeros raises on a negative dimension and on no other shape.
BadShape(yh, yw) == yh < 0 \/ yw < 0

\* Y = np.zeros((X.shape[0] - h + 1, X.shape[1] - w + 1))
Zeros ==
    /\ pc = "zeros"
    /\ LET yh == OutShape(heap[X], h, w)[1]
           yw == OutShape(heap[X], h, w)[2]
       IN  IF BadShape(yh, yw)
           THEN /\ pc' = "raised"
                /\ UNCHANGED <<heap, Y, i, j, todo>>
           ELSE /\ Y' = NewAddr(heap)
                /\ heap' = Alloc(heap, zeros(yh, yw))
                /\ i' = 0 /\ j' = 0
                /\ todo' = Cells(yh, yw)
                /\ pc' = "for"
    /\ UNCHANGED <<X, K, h, w, log, dirty, ncalls, nwrites, pure, nets>>

\* g turned by 180 degrees.
Flip(g) == [g EXCEPT !.d = [rc \in DOMAIN g.d |-> g.d[<<g.h - 1 - rc[1], g.w - 1 - rc[2]>>]]]

\* Window with the kernel flipped: convolution proper.
WindowFlipped(hp, xa, ka, r, c, hh, ww) ==
    TensorSum(Mul(Slice(hp[xa], r, r + hh, c, c + ww), Flip(hp[ka])))

\* Window reading the session's input, not the argument X.
WindowGlobalX(hp, xa, ka, r, c, hh, ww) ==
    TensorSum(Mul(Slice(hp[1], r, r + hh, c, c + ww), hp[ka]))

\* Window adding the input's first element to the sum.
WindowLeak(hp, xa, ka, r, c, hh, ww) ==
    TensorSum(Mul(Slice(hp[xa], r, r + hh, c, c + ww), hp[ka])) + hp[xa].d[<<0, 0>>]

\* (X[i:i + h, j:j + w] * K).sum()
Window(hp, xa, ka, r, c, hh, ww) ==
    TensorSum(Mul(Slice(hp[xa], r, r + hh, c, c + ww), hp[ka]))

\* Step storing into X.
StepInPlace(hp, xa, ka, ya, r, c, hh, ww) ==
    [hp EXCEPT ![xa] = SetItem(@, r, c, Window(hp, xa, ka, r, c, hh, ww))]

\* Step adding the cell to the left of the one it stores.
StepCarry(hp, xa, ka, ya, r, c, hh, ww) ==
    [hp EXCEPT ![ya] = SetItem(@, r, c,
        Window(hp, xa, ka, r, c, hh, ww) + (IF c > 0 THEN @.d[<<r, c - 1>>] ELSE 0))]

\* Y[r, c] = (X[r:r + h, c:c + w] * K).sum()
Step(hp, xa, ka, ya, r, c, hh, ww) ==
    [hp EXCEPT ![ya] = SetItem(@, r, c, Window(hp, xa, ka, r, c, hh, ww))]

\* One iteration of the inner loop, and the step of range(Y.shape[1]) inside
\* range(Y.shape[0]).
Assign ==
    /\ pc = "for"
    /\ i < heap[Y].h /\ heap[Y].w > 0
    /\ heap' = Step(heap, X, K, Y, i, j, h, w)
    /\ todo' = todo \ {<<i, j>>}
    /\ IF j + 1 < heap[Y].w
       THEN /\ j' = j + 1 /\ i' = i
       ELSE /\ j' = 0 /\ i' = i + 1
    /\ UNCHANGED <<X, K, h, w, Y, pc, log, dirty, ncalls, nwrites, pure, nets>>

\* The two loops run to their end: the first n iterations in the order of
\* range(Y.shape[0]) and, inside it, range(Y.shape[1]).
RECURSIVE RowMajor(_, _, _, _, _, _, _)
RowMajor(hp, xa, ka, ya, hh, ww, n) ==
    IF n = 0 THEN hp
    ELSE LET before == RowMajor(hp, xa, ka, ya, hh, ww, n - 1)
         IN  Step(before, xa, ka, ya, (n - 1) \div hp[ya].w, (n - 1) % hp[ya].w, hh, ww)

\* The loops are exhausted: go to `return Y`.
LoopEnd ==
    /\ pc = "for"
    /\ (i >= heap[Y].h \/ heap[Y].w = 0)
    /\ pc' = "return"
    /\ UNCHANGED <<heap, X, K, h, w, Y, i, j, todo, log, dirty, ncalls, nwrites, pure, nets>>

\* What the session records of a call that ended.
\* ok: the call returned (out is the grid it returned); ~ok: it raised.
\* n numbers the session's calls; x and k are the arguments' values.
Record(n, xa, ka, ya, xv, kv, ok, out) ==
    [n |-> n, xa |-> xa, ka |-> ka, ya |-> ya, x |-> xv, k |-> kv, ok |-> ok, out |-> out]

\* return Y
Return ==
    /\ pc = "return"
    /\ log' = log \cup {Record(ncalls, X, K, Y, heap[X], heap[K], TRUE, heap[Y])}
    /\ pc' = "idle"
    /\ DropFrame
    /\ UNCHANGED <<heap, dirty, ncalls, nwrites, pure, nets>>

\* The exception of np.zeros reaches the session.
Raise ==
    /\ pc = "raised"
    /\ log' = log \cup {Record(ncalls, X, K, 0, heap[X], heap[K], FALSE, NoGrid)}
    /\ pc' = "idle"
    /\ DropFrame
    /\ UNCHANGED <<heap, dirty, ncalls, nwrites, pure, nets>>

\* The session writes into a tensor it holds, as the notebook does with
\* X[:, 2:6] = 0. The write modelled is T[0, 0] += 1, which changes the
\* tensor whatever it holds.
Write(a) ==
    /\ pc = "idle"
    /\ nwrites < MaxWrites
    /\ <<0, 0>> \in Cells(heap[a].h, heap[a].w)
    /\ heap' = [heap EXCEPT ![a] = SetItem(@, 0, 0, @.d[<<0, 0>>] + 1)]
    /\ dirty' = dirty \cup {a}
    /\ nwrites' = nwrites + 1
    /\ UNCHANGED <<X, K, h, w, Y, i, j, pc, todo, log, ncalls, pure, nets>>

\* A session: the input is square, it and the kernel start as ranges; the kernel is applied
\* to any tensor the session holds, the kernel itself and the results of
\* earlier calls included.
SessionInit ==
    /\ \E n \in 1 .. MaxDim, ks \in KernelShapes :
           heap = <<arange(n, n, 0), arange(ks[1], ks[2], 1)>>
    /\ NoFrame
    /\ pc = "idle"
    /\ log = {}
    /\ dirty = {}
    /\ ncalls = 0
    /\ nwrites = 0
    /\ NoCall

SessionCall(xa) ==
    /\ ncalls < MaxCalls
    /\ Enter(xa, 2)

\* Inputs of the any-order execution: ranges of every shape.
AnyInit ==
    /\ \E xs \in InputShapes, ks \in KernelShapes, kb \in Vals :
           heap = <<arange(xs[1], xs[2], 0), arange(ks[1], ks[2], kb)>>
    /\ NoFrame
    /\ pc = "idle"
    /\ log = {}
    /\ dirty = {}
    /\ ncalls = 0
    /\ nwrites = 0
    /\ NoCall

\* The iterations of the two loops taken in any order: one of the output
\* coordinates still to do is assigned.
AssignAny(r, c) ==
    /\ pc = "for"
    /\ <<r, c>> \in todo
    /\ heap' = Step(heap, X, K, Y, r, c, h, w)
    /\ todo' = todo \ {<<r, c>>}
    /\ UNCHANGED <<X, K, h, w, Y, i, j, pc, log, dirty, ncalls, nwrites, pure, nets>>

\* Every output coordinate is assigned: go to `return Y`.
AnyEnd ==
    /\ pc = "for"
    /\ todo = {}
    /\ pc' = "return"
    /\ UNCHANGED <<heap, X, K, h, w, Y, i, j, todo, log, dirty, ncalls, nwrites, pure, nets>>

\* Three kernels: two of one shape and, at address 4, their sum K1 + K2.
LinInit ==
    /\ \E xs \in InputShapes, ks \in KernelShapes, ka \in KVals, kb \in KVals,
          k2 \in Vals :
           LET K1 == linear(ks[1], ks[2], ka, kb, 0)
               K2 == arange(ks[1], ks[2], k2)
           IN  heap = <<arange(xs[1], xs[2], 0), K1, K2, Add(K1, K2)>>
    /\ NoFrame
    /\ pc = "idle"
    /\ log = {}
    /\ dirty = {}
    /\ ncalls = 0
    /\ nwrites = 0
    /\ NoCall

\* The addresses of K1, K2 and K1 + K2.
LinKernels == <<2, 3, 4>>

\* corr2d(X, K1), corr2d(X, K2), corr2d(X, K1 + K2), one after the other.
LinCall ==
    /\ ncalls < Len(LinKernels)
    /\ Enter(1, LinKernels[ncalls + 1])

\* ---------------------------------------------------------------- notebook
\* np.ones((hh, ww))
ones(hh, ww) == [h |-> hh, w |-> ww, d |-> [rc \in Cells(hh, ww) |-> 1]]

\* g[:, c0:c1] = v
SetCols(g, c0, c1, v) ==
    [g EXCEPT !.d = [rc \in DOMAIN g.d |-> IF rc[2] >= c0 /\ rc[2] < c1 THEN v ELSE g.d[rc]]]

\* d2l.transpose(g)
Transpose(g) == [h |-> g.w, w |-> g.h, d |-> [rc \in Cells(g.w, g.h) |-> g.d[<<rc[2], rc[1]>>]]]

\* X = np.array([[0.0, 1.0, 2.0], [3.0, 4.0, 5.0], [6.0, 7.0, 8.0]])
ExampleX == arange(3, 3, 0)

\* K = np.array([[0.0, 1.0], [2.0, 3.0]])
ExampleK == arange(2, 2, 0)

\* X = np.ones((6, 8)); X[:, 2:6] = 0
EdgeImage == SetCols(ones(6, 8), 2, 6, 0)

\* K = np.array([[1.0, -1.0]])
EdgeKernel == linear(1, 2, 0, 0 - 2, 1)

\* The inputs of the notebook's cells: the worked example, the edge image
\* and its transpose with the edge kernel; and with the edge kernel, every
\* input of elements a*r + b*c + c0.
NotebookInit ==
    /\ \/ heap = <<ExampleX, ExampleK>>
       \/ heap = <<EdgeImage, EdgeKernel>>
       \/ heap = <<Transpose(EdgeImage), EdgeKernel>>
       \/ \E xs \in InputShapes, a \in KVals, b \in KVals, c0 \in Vals :
              heap = <<linear(xs[1], xs[2], a, b, c0), EdgeKernel>>
    /\ NoFrame
    /\ pc = "idle"
    /\ log = {}
    /\ dirty = {}
    /\ ncalls = 0
    /\ nwrites = 0
    /\ NoCall

\* ---------------------------------------------------------------- Conv2D
\* Addresses of the layer's input and parameters, and of the tensor
\* corr2d allocates in forward.
ConvX == 1
ConvWeight == 2
ConvBias == 3
ConvY == 4

\* BroadcastAdd leaving the bias out.
BroadcastAddNothing(g, b) == g

\* g + b for b of shape (1,): the single element of b is added to every
\* element of g; the sum is a new tensor of g's shape.
BroadcastAdd(g, b) == [g EXCEPT !.d = [rc \in DOMAIN g.d |-> g.d[rc] + b.d[<<0, 0>>]]]

\* A layer Conv2D(kernel_size) with weight of shape kernel_size and bias of
\* shape (1,), held as a grid of one element, and an input x.
ConvInit ==
    /\ \E xs \in InputShapes, ks \in KernelShapes, ka \in KVals, b \in KVals :
           heap = <<arange(xs[1], xs[2], 0), linear(ks[1], ks[2], ka, 1, 0),
                    linear(1, 1, 0, 0, b)>>
    /\ NoFrame
    /\ pc = "idle"
    /\ log = {}
    /\ dirty = {}
    /\ ncalls = 0
    /\ nwrites = 0
    /\ NoCall

\* forward(x) calls corr2d(x, self.weight.data()).
Forward ==
    /\ ncalls = 0
    /\ Enter(ConvX, ConvWeight)

\* ... + self.bias.data(), once corr2d has returned; forward returns the sum.
AddBias ==
    /\ pc = "idle"
    /\ Len(heap) = ConvY
    /\ heap' = Alloc(heap, BroadcastAdd(heap[ConvY], heap[ConvBias]))
    /\ UNCHANGED <<X, K, h, w, Y, i, j, pc, todo, log, dirty, ncalls, nwrites, pure, nets>>

\* ---------------------------------------------------------------- devices
\* The state of corr2d's session when the session never calls corr2d.
NoCorr ==
    /\ heap = <<>>
    /\ NoFrame
    /\ pc = "idle"
    /\ log = {}
    /\ dirty = {}
    /\ ncalls = 0
    /\ nwrites = 0

\* torch.device('cpu')
cpu == [type |-> "cpu"]

\* torch.device(f'cuda:{idx}'): the device string is parsed, not looked up, so
\* any index of digits gives a device, whether the machine has it or not;
\* 'cuda:-1' is no device string and torch.device raises RuntimeError.
gpu(idx) ==
    IF idx < 0 THEN [type |-> "RuntimeError"] ELSE [type |-> "cuda", index |-> idx]

\* torch.cuda.device_count()
num_gpus == ngpus

\* if num_gpus() >= i + 1: return gpu(i); return cpu()
try_gpu(idx) == IF num_gpus >= idx + 1 THEN gpu(idx) ELSE cpu

\* [gpu(i) for i in range(num_gpus())]
try_all_gpus == [n \in 1 .. num_gpus |-> gpu(n - 1)]

\* A machine with any number of GPUs.
GpuInit ==
    /\ ngpus \in 0 .. MaxGpus
    /\ call = [fn |-> "none"]
    /\ ret = [type |-> "none"]
    /\ NoNet
    /\ NoCorr

\* The notebook evaluates try_gpu(idx).
TryGpu(idx) ==
    /\ call' = [fn |-> "try_gpu", i |-> idx]
    /\ ret' = try_gpu(idx)
    /\ UNCHANGED <<ngpus, corr, nets>>

\* The notebook evaluates try_all_gpus().
TryAllGpus ==
    /\ call' = [fn |-> "try_all_gpus"]
    /\ ret' = try_all_gpus
    /\ UNCHANGED <<ngpus, corr, nets>>

\* ---------------------------------------------------------------- accuracy
\* Scores are 0 or 1: the index argmax returns depends only on where the
\* largest score first stands, and two values give every such pattern, ties
\* included.
Scores == {0, 1}

\* The sum of the first n elements of the sequence v.
RECURSIVE SeqSumTo(_, _)
SeqSumTo(v, n) == IF n = 0 THEN 0 ELSE SeqSumTo(v, n - 1) + v[n]

SeqSum(v) == SeqSumTo(v, Len(v))

\* Y_hat.reshape((-1, Y_hat.shape[-1])): a tensor is its shape and its
\* elements in row-major order; the rows of the reshaped tensor are the
\* successive runs of shape[-1] elements, as many as the elements give.
Reshape(t) ==
    LET c == t.shape[Len(t.shape)]
    IN  [r \in 1 .. (Len(t.data) \div c) |-> SubSeq(t.data, (r - 1) * c + 1, r * c)]

\* argmax returning the last index of the largest element.
ArgMaxLast(row) ==
    (CHOOSE n \in 1 .. Len(row) :
        /\ \A m \in 1 .. Len(row) : row[m] <= row[n]
        /\ \A m \in n + 1 .. Len(row) : row[m] < row[n]) - 1

\* The position among the first n elements of row that argmax's scan holds:
\* a later element replaces the one held only if it is larger.
RECURSIVE ArgMaxTo(_, _)
ArgMaxTo(row, n) ==
    IF n = 1 THEN 1
    ELSE LET b == ArgMaxTo(row, n - 1)
         IN  IF row[n] > row[b] THEN n ELSE b

\* argmax over one row: the index, from 0, of the first largest element.
ArgMax(row) == ArgMaxTo(row, Len(row)) - 1

\* v.mean() of a vector of 0/1 floats: the sum over the length, kept as the
\* pair of both; the mean of an empty tensor is NaN.
Mean(v) ==
    IF Len(v) = 0 THEN [nan |-> TRUE, num |-> 0, den |-> 0]
    ELSE [nan |-> FALSE, num |-> SeqSum(v), den |-> Len(v)]

\* Classifier.accuracy: labels have an integer dtype, which the indices
\* argmax returns are cast to unchanged.
accuracy(Y_hat, labels, averaged) ==
    LET rows == Reshape(Y_hat)
        preds == [r \in 1 .. Len(rows) |-> ArgMax(rows[r])]
        compare == [r \in 1 .. Len(preds) |-> IF preds[r] = labels[r] THEN 1 ELSE 0]
    IN  IF averaged THEN Mean(compare) ELSE compare

AccuracyInit ==
    /\ NoCall
    /\ NoCorr

\* The one call of accuracy a session makes, with scores for n rows and c
\* classes and one label a row.
Accuracy ==
    /\ call.fn = "none"
    /\ \E n \in 0 .. MaxRows, c \in 1 .. MaxClasses :
           \E data \in [1 .. n * c -> Scores], labels \in [1 .. n -> 0 .. MaxClasses - 1],
              averaged \in BOOLEAN :
               /\ call' = [fn |-> "accuracy", Y_hat |-> [shape |-> <<n, c>>, data |-> data],
                           Y |-> labels, averaged |-> averaged]
               /\ ret' = accuracy([shape |-> <<n, c>>, data |-> data], labels, averaged)
    /\ UNCHANGED <<ngpus, corr, nets>>

\* ---------------------------------------------------------------- CenteredLayer
\* Floats: an element is held as its number of units of 1/Scale. Sums and
\* differences of such numbers are exact; a quotient is rounded to the
\* nearest unit, ties to the even one, as float32 rounds a quotient to the
\* nearest float.
Float(n) == Scale * n

\* a / n for n >= 1, rounded.
RoundDiv(a, n) ==
    LET q == a \div n
        r == a % n
    IN  IF 2 * r < n THEN q
        ELSE IF 2 * r > n THEN q + 1
        ELSE IF q % 2 = 0 THEN q ELSE q + 1

\* The mean with the division left out.
RoundedMeanNoDivide(x) == SeqSum(x)

\* X.mean() of a non-empty tensor of floats: the sum of the elements
\* divided by their number.
RoundedMean(x) == RoundDiv(SeqSum(x), Len(x))

\* CenteredLayer.forward: X - X.mean(); the tensor is held flat, the mean
\* being over all elements whatever the shape.
CenteredLayer(x) == [n \in 1 .. Len(x) |-> x[n] - RoundedMean(x)]

\* layer(torch.tensor([1.0, 2, 3, 4, 5]))
ExampleTensor == [n \in 1 .. 5 |-> Float(n)]

CenteredInit ==
    /\ NoCall
    /\ NoCorr

\* layer(x) on a tensor the session made.
Layer(x) ==
    /\ call.fn = "none"
    /\ call' = [fn |-> "CenteredLayer", X |-> x, again |-> FALSE]
    /\ ret' = CenteredLayer(x)
    /\ UNCHANGED <<ngpus, corr, nets>>

\* layer(y) on the tensor y the layer returned.
LayerAgain ==
    /\ call.fn = "CenteredLayer"
    /\ ~call.again
    /\ call' = [fn |-> "CenteredLayer", X |-> ret, again |-> TRUE]
    /\ ret' = CenteredLayer(ret)
    /\ UNCHANGED <<ngpus, corr, nets>>

\* ---------------------------------------------------------------- vision Transformer
\* A tensor is its shape and, along its axis of positions, the label of what
\* stands at each position, in order.

\* torch.zeros(batch_size, 3, img_size, img_size): the channels of an image.
Channels == 3
\* num_classes=10
NumClasses == 10

\* A size argument: an int s, or a tuple (a, b).
Sizes == [scalar : {TRUE}, v : 1 .. MaxImg]
            \cup [scalar : {FALSE}, v : (1 .. MaxImg) \X (1 .. MaxImg)]

\* _make_tuple: (x, x) unless x is a list or tuple.
make_tuple(x) == IF x.scalar THEN <<x.v, x.v>> ELSE x.v

\* PatchEmbedding.__init__
PatchEmbedding(img_size, patch_size, num_hiddens) ==
    LET img == make_tuple(img_size)
        patch == make_tuple(patch_size)
    IN  [num_patches |-> (img[1] \div patch[1]) * (img[2] \div patch[2]),
         conv |-> [out_channels |-> num_hiddens,
                   kernel_size |-> make_tuple(patch_size),
                   stride |-> make_tuple(patch_size)]]

\* Positions of a convolution with stride 1 along an axis.
ConvOutStrideOne(n, k, st) == n - k + 1

\* Positions of a convolution without padding along an axis of length n,
\* for a kernel of length k <= n and stride st.
ConvOut(n, k, st) == (n - k) \div st + 1

\* nn.Conv2d raises when the kernel is larger than the input.
ConvFits(conv, t) ==
    conv.kernel_size[1] <= t.shape[3] /\ conv.kernel_size[2] <= t.shape[4]

\* self.conv(X) for X of shape (batch, channels, height, width): one output
\* position a window, row by row.
Conv2d(conv, t) ==
    LET oh == ConvOut(t.shape[3], conv.kernel_size[1], conv.stride[1])
        ow == ConvOut(t.shape[4], conv.kernel_size[2], conv.stride[2])
    IN  [shape |-> <<t.shape[1], conv.out_channels, oh, ow>>,
         cells |-> [p \in 1 .. oh * ow |->
                      [kind |-> "patch", r |-> (p - 1) \div ow, c |-> (p - 1) % ow]]]

\* t.flatten(2) of a tensor of four axes.
Flatten2(t) ==
    [shape |-> <<t.shape[1], t.shape[2], t.shape[3] * t.shape[4]>>, cells |-> t.cells]

\* t.transpose(1, 2) of a tensor of three axes.
Transpose12(t) == [shape |-> <<t.shape[1], t.shape[3], t.shape[2]>>, cells |-> t.cells]

\* PatchEmbedding.forward
PatchForward(pe, t) == Transpose12(Flatten2(Conv2d(pe.conv, t)))

\* ViTBlock.__init__ with its ViTMLP.
ViTBlock(num_hiddens, norm_shape, mlp_num_hiddens) ==
    [ln1 |-> norm_shape, attention |-> num_hiddens, ln2 |-> norm_shape,
     mlp |-> [dense1 |-> mlp_num_hiddens, dense2 |-> num_hiddens]]

\* ViT.__init__
ViT(img_size, patch_size, num_hiddens, mlp_num_hiddens, num_blks) ==
    LET pe == PatchEmbedding(img_size, patch_size, num_hiddens)
        num_steps == pe.num_patches + 1
    IN  [class |-> "ViT",
         img_size |-> img_size, patch_size |-> patch_size,
         num_hiddens |-> num_hiddens, num_blks |-> num_blks,
         patch_embedding |-> pe,
         cls_token |-> [shape |-> <<1, 1, num_hiddens>>, cells |-> <<[kind |-> "cls"]>>],
         pos_embedding |-> [shape |-> <<1, num_steps, num_hiddens>>],
         blks |-> [n \in 1 .. num_blks |-> ViTBlock(num_hiddens, num_hiddens, mlp_num_hiddens)],
         head |-> [norm |-> num_hiddens, linear |-> NumClasses]]

\* t.expand(n, -1, -1)
Expand(t, n) == [t EXCEPT !.shape[1] = n]

\* torch.cat with the two tensors swapped.
CatSwapped(a, b) ==
    [shape |-> <<a.shape[1], a.shape[2] + b.shape[2], a.shape[3]>>, cells |-> b.cells \o a.cells]

\* torch.cat((a, b), 1) of tensors of three axes.
Cat(a, b) ==
    [shape |-> <<a.shape[1], a.shape[2] + b.shape[2], a.shape[3]>>, cells |-> a.cells \o b.cells]

\* Two shapes of equal length broadcast when, on every axis, the sizes are
\* equal or one of them is 1.
Broadcasts(s1, s2) ==
    /\ Len(s1) = Len(s2)
    /\ \A n \in 1 .. Len(s1) : s1[n] = s2[n] \/ s1[n] = 1 \/ s2[n] = 1

\* The shape of a + b.
BroadcastShape(s1, s2) == [n \in 1 .. Len(s1) |-> Max(s1[n], s2[n])]

\* nn.LazyLinear(out): the last axis becomes out.
Linear(t, out) == [t EXCEPT !.shape[Len(t.shape)] = out]

\* ViTMLP.forward: dense1, gelu, dropout, dense2, dropout.
ViTMLPForward(mlp, t) == Linear(Linear(t, mlp.dense1), mlp.dense2)

\* d2l.MultiHeadAttention on queries, keys and values t: one output of
\* num_hiddens units a query.
Attention(num_hiddens, t) == [t EXCEPT !.shape[3] = num_hiddens]

\* nn.LayerNorm(norm_shape) takes tensors whose last axis is norm_shape; the
\* two sums of a block need shapes that broadcast.
ViTBlockFits(blk, t) ==
    /\ t.shape[3] = blk.ln1
    /\ Broadcasts(t.shape, Attention(blk.attention, t).shape)
    /\ t.shape[3] = blk.ln2
    /\ Broadcasts(t.shape, ViTMLPForward(blk.mlp, t).shape)

\* ViTBlock.forward: X = X + attention(ln1(X)); return X + mlp(ln2(X)).
\* LayerNorm keeps the shape.
ViTBlockForward(blk, t) ==
    LET a == [t EXCEPT !.shape = BroadcastShape(t.shape, Attention(blk.attention, t).shape)]
    IN  [a EXCEPT !.shape = BroadcastShape(a.shape, ViTMLPForward(blk.mlp, a).shape)]

\* A session builds a ViT for images of some size, with patches of some
\* size, each size given as an int or as a pair.
ViTInit ==
    /\ \E img_size \in Sizes, patch_size \in Sizes, num_hiddens \in 1 .. MaxHiddens,
          wide \in 1 .. 2, num_blks \in 0 .. MaxBlks :
           net = ViT(img_size, patch_size, num_hiddens, wide * num_hiddens, num_blks)
    /\ frame = [fn |-> "none"]
    /\ step = "idle"
    /\ ngpus = 0
    /\ call = [fn |-> "none"]
    /\ ret = [type |-> "none"]
    /\ NoCorr

\* model(X) for a batch X of images of the declared size.
ViTForward ==
    /\ step = "idle"
    /\ frame.fn = "none"
    /\ \E batch \in 1 .. MaxBatch :
           frame' = [fn |-> "ViT.forward",
                     image |-> <<batch, Channels, make_tuple(net.img_size)[1],
                                 make_tuple(net.img_size)[2]>>,
                     X |-> [shape |-> <<batch, Channels, make_tuple(net.img_size)[1],
                                        make_tuple(net.img_size)[2]>>,
                            cells |-> <<>>],
                     blk |-> 0]
    /\ step' = "patch_embedding"
    /\ UNCHANGED <<net, pure, corr>>

\* X = self.patch_embedding(X)
PatchEmbed ==
    /\ step = "patch_embedding"
    /\ IF ConvFits(net.patch_embedding.conv, frame.X)
       THEN /\ frame' = [frame EXCEPT !.X = PatchForward(net.patch_embedding, @)]
            /\ step' = "cat"
       ELSE /\ step' = "raised"
            /\ UNCHANGED frame
    /\ UNCHANGED <<net, pure, corr>>

\* X = torch.cat((self.cls_token.expand(X.shape[0], -1, -1), X), 1)
CatCls ==
    /\ step = "cat"
    /\ frame' = [frame EXCEPT !.X = Cat(Expand(net.cls_token, @.shape[1]), @)]
    /\ step' = "pos"
    /\ UNCHANGED <<net, pure, corr>>

\* X = self.dropout(X + self.pos_embedding); dropout keeps the shape.
AddPos ==
    /\ step = "pos"
    /\ IF Broadcasts(frame.X.shape, net.pos_embedding.shape)
       THEN /\ frame' = [frame EXCEPT
                            !.X.shape = BroadcastShape(@, net.pos_embedding.shape)]
            /\ step' = "blks"
       ELSE /\ step' = "raised"
            /\ UNCHANGED frame
    /\ UNCHANGED <<net, pure, corr>>

\* for blk in self.blks: X = blk(X)
Blk ==
    /\ step = "blks"
    /\ frame.blk < Len(net.blks)
    /\ IF ViTBlockFits(net.blks[frame.blk + 1], frame.X)
       THEN /\ frame' = [frame EXCEPT !.X = ViTBlockForward(net.blks[frame.blk + 1], @),
                                       !.blk = @ + 1]
            /\ step' = "blks"
       ELSE /\ step' = "raised"
            /\ UNCHANGED frame
    /\ UNCHANGED <<net, pure, corr>>

\* return self.head(X[:, 0]): X[:, 0] is what stands at position 0, for
\* every image of the batch; LayerNorm, then Linear to the classes.
ApplyHead ==
    /\ step = "blks"
    /\ frame.blk = Len(net.blks)
    /\ frame' = [frame EXCEPT !.X =
                    Linear([shape |-> <<@.shape[1], @.shape[3]>>, cells |-> <<@.cells[1]>>],
                           net.head.linear)]
    /\ step' = "done"
    /\ UNCHANGED <<net, pure, corr>>

\* ---------------------------------------------------------------- bidirectional RNN
\* d2l.RNNScratch(num_inputs, num_hiddens, sigma)
RNNScratch(name, num_inputs, num_hiddens) ==
    [name |-> name, num_inputs |-> num_inputs, num_hiddens |-> num_hiddens]

\* RNNScratch.forward with no state given: the hidden state starts empty, is
\* updated from itself and the input at every time step, and is the output
\* of that step. A hidden state is held as what it was computed from, the
\* inputs read so far in their order, and not as numbers.
RECURSIVE RNNOutputs(_, _, _)
RNNOutputs(rnn, inputs, n) ==
    IF n = 0 THEN <<>>
    ELSE LET outputs == RNNOutputs(rnn, inputs, n - 1)
             state == IF n = 1 THEN <<>> ELSE outputs[n - 1].read
         IN  Append(outputs, [rnn |-> rnn.name, read |-> Append(state, inputs[n]),
                              width |-> rnn.num_hiddens])

RNNForward(rnn, inputs) == RNNOutputs(rnn, inputs, Len(inputs))

\* BiRNNScratch.__init__: self.num_hiddens *= 2 after the two RNNs are built.
BiRNNScratch(num_inputs, num_hiddens) ==
    [class |-> "BiRNNScratch", num_inputs |-> num_inputs,
     f_rnn |-> RNNScratch("f_rnn", num_inputs, num_hiddens),
     b_rnn |-> RNNScratch("b_rnn", num_inputs, num_hiddens),
     num_hiddens |-> num_hiddens * 2]

\* reversed leaving the order as it is.
ReversedNot(q) == q

\* reversed(q)
Reversed(q) == [n \in 1 .. Len(q) |-> q[Len(q) + 1 - n]]

\* torch.cat((a, b), -1): the parts side by side along the last axis.
CatLast(a, b) == [parts |-> <<a, b>>, width |-> a.width + b.width]

\* zip(p, q): pairs up to the end of the shorter.
Zip(p, q) == [n \in 1 .. Min(Len(p), Len(q)) |-> <<p[n], q[n]>>]

BiInit ==
    /\ \E num_inputs \in 1 .. MaxHiddens, num_hiddens \in 1 .. MaxHiddens :
           net = BiRNNScratch(num_inputs, num_hiddens)
    /\ frame = [fn |-> "none"]
    /\ step = "idle"
    /\ ngpus = 0
    /\ call = [fn |-> "none"]
    /\ ret = [type |-> "none"]
    /\ NoCorr

\* forward(inputs) with Hs=None, on a sequence of T time steps.
BiForward ==
    /\ step = "idle"
    /\ frame.fn = "none"
    /\ \E T \in 0 .. MaxSteps :
           \E inputs \in [1 .. T -> 1 .. MaxTokens] :
               frame' = [fn |-> "BiRNNScratch.forward", inputs |-> inputs,
                         f_outputs |-> <<>>, b_outputs |-> <<>>, outputs |-> <<>>]
    /\ step' = "f_rnn"
    /\ UNCHANGED <<net, pure, corr>>

\* f_outputs, f_H = self.f_rnn(inputs, f_H)
FRnn ==
    /\ step = "f_rnn"
    /\ frame' = [frame EXCEPT !.f_outputs = RNNForward(net.f_rnn, frame.inputs)]
    /\ step' = "b_rnn"
    /\ UNCHANGED <<net, pure, corr>>

\* b_outputs, b_H = self.b_rnn(reversed(inputs), b_H)
BRnn ==
    /\ step = "b_rnn"
    /\ frame' = [frame EXCEPT !.b_outputs = RNNForward(net.b_rnn, Reversed(frame.inputs))]
    /\ step' = "cat"
    /\ UNCHANGED <<net, pure, corr>>

\* outputs = [torch.cat((f, b), -1)
\*            for f, b in zip(f_outputs, reversed(b_outputs))]; return outputs
CatOutputs ==
    /\ step = "cat"
    /\ frame' = [frame EXCEPT !.outputs =
                    LET pairs == Zip(frame.f_outputs, Reversed(frame.b_outputs))
                    IN  [n \in 1 .. Len(pairs) |-> CatLast(pairs[n][1], pairs[n][2])]]
    /\ step' = "done"
    /\ UNCHANGED <<net, pure, corr>>

\* ---------------------------------------------------------------- claims
\* The kernel fits in the input at least once.
Fits(x, k) == k.h >= 1 /\ k.h <= x.h /\ k.w >= 1 /\ k.w <= x.w
NonFit(x, k) == k.h > x.h \/ k.w > x.w

\* The sum of x[r+p][c+q] * k[p][q] over the first n pairs (p, q) of the
\* kernel's index set, taken row by row.
RECURSIVE ProdSum(_, _, _, _, _)
ProdSum(x, k, r, c, n) ==
    IF n = 0 THEN 0
    ELSE LET p == (n - 1) \div k.w
             q == (n - 1) % k.w
         IN  ProdSum(x, k, r, c, n - 1) + x.d[<<r + p, c + q>>] * k.d[<<p, q>>]

\* C1: whenever the kernel fits, corr2d returns a grid and every output
\* coordinate (r, c) with 0 <= r <= H-kh and 0 <= c <= W-kw holds the sum
\* over p, q of X[r+p][c+q] * K[p][q].
C1_ProductSum ==
    \A rec \in log :
        Fits(rec.x, rec.k) =>
            /\ rec.ok
            /\ \A r \in 0 .. rec.x.h - rec.k.h, c \in 0 .. rec.x.w - rec.k.w :
                   /\ <<r, c>> \in DOMAIN rec.out.d
                   /\ rec.out.d[<<r, c>>] = ProdSum(rec.x, rec.k, r, c, rec.k.h * rec.k.w)

\* A call returned for a kernel of two rows and two columns and produced
\* several cells, not all of them equal.
C1_Witness ==
    \E rec \in log :
        /\ Fits(rec.x, rec.k) /\ rec.k.h >= 2 /\ rec.k.w >= 2
        /\ rec.ok
        /\ \E a \in DOMAIN rec.out.d, b \in DOMAIN rec.out.d :
               rec.out.d[a] # rec.out.d[b] /\ rec.out.d[a] # 0

\* C2: whenever kh <= H and kw <= W, the grid corr2d returns has exactly
\* H-kh+1 rows and W-kw+1 columns.
C2_OutputShape ==
    \A rec \in log :
        (rec.k.h <= rec.x.h /\ rec.k.w <= rec.x.w) =>
            /\ rec.ok
            /\ rec.out.h = rec.x.h - rec.k.h + 1
            /\ rec.out.w = rec.x.w - rec.k.w + 1
            /\ DOMAIN rec.out.d = Cells(rec.x.h - rec.k.h + 1, rec.x.w - rec.k.w + 1)

\* A call returned a grid that is smaller than its input along both axes
\* and has more than one row and more than one column.
C2_Witness ==
    \E rec \in log :
        /\ rec.ok
        /\ rec.k.h >= 2 /\ rec.k.w >= 2
        /\ rec.out.h >= 2 /\ rec.out.w >= 2

\* C3: corr2d fails with an error for every kernel that does not fit
\* (kh > H or kw > W), the boundary cases kh = H+1 and kw = W+1 included.
C3_NonFitRaises ==
    \A rec \in log : NonFit(rec.x, rec.k) => ~rec.ok

\* A grid of zero height or zero width.
IsEmpty(g) == g.h = 0 \/ g.w = 0

\* C4: non-fitting kernels are treated by one convention: either every such
\* call raises, or every such call returns an empty grid.
C4_SingleConvention ==
    \/ \A rec \in log : NonFit(rec.x, rec.k) => ~rec.ok
    \/ \A rec \in log : NonFit(rec.x, rec.k) => (rec.ok /\ IsEmpty(rec.out))

C6_FullKernel ==
    \A rec \in log :
        (rec.k.h = rec.x.h /\ rec.k.w = rec.x.w) =>
            /\ rec.ok
            /\ rec.out.h = 1 /\ rec.out.w = 1
            /\ DOMAIN rec.out.d = {<<0, 0>>}
            /\ rec.out.d[<<0, 0>>] = ProdSum(rec.x, rec.k, 0, 0, rec.x.h * rec.x.w)

\* A call returned for a kernel of the input's shape, with several elements
\* and a value other than zero.
C6_Witness ==
    \E rec \in log :
        /\ rec.k.h = rec.x.h /\ rec.k.w = rec.x.w
        /\ rec.x.h >= 2 /\ rec.x.w >= 2
        /\ rec.ok
        /\ rec.out.d[<<0, 0>>] # 0

\* C7: corr2d has no side effect on its arguments: no step of a call, its
\* return and its failure included, changes an element or the shape of the
\* tensors X and K name, and the call's record holds them as they still are.
C7_ArgumentsUnchanged ==
    [][ /\ pc # "idle" => (heap'[X] = heap[X] /\ heap'[K] = heap[K])
        /\ \A rec \in log' \ log : rec.x = heap'[rec.xa] /\ rec.k = heap'[rec.ka]
      ]_vars

\* A call on an input that is itself the result of a call has stored a
\* non-zero cell and is about to return.
C7_Witness ==
    /\ pc = "return"
    /\ X > 2
    /\ \E rc \in DOMAIN heap[Y].d : heap[Y].d[rc] # 0

\* C8: the grid corr2d returns is newly allocated: its storage is that of
\* neither argument nor of any other call's result, so a returned grid the
\* session did not itself write to still has the value returned, whatever
\* was written or called since, and an argument the session did not itself
\* write to still has the value it was passed with.
C8_FreshResult ==
    /\ \A rec \in log : rec.ok => (rec.ya # rec.xa /\ rec.ya # rec.ka)
    /\ \A a \in log, b \in log : (a.ok /\ b.ok /\ a.n # b.n) => a.ya # b.ya
    /\ \A rec \in log : (rec.ok /\ rec.ya \notin dirty) => heap[rec.ya] = rec.out
    /\ \A rec \in log : rec.xa \notin dirty => heap[rec.xa] = rec.x
    /\ \A rec \in log : rec.ka \notin dirty => heap[rec.ka] = rec.k

\* Two calls returned non-empty grids, the second on the result of the
\* first, and the session then wrote to the second result.
C8_Witness ==
    \E a \in log, b \in log :
        /\ a.ok /\ b.ok /\ a.n < b.n
        /\ b.xa = a.ya
        /\ ~IsEmpty(a.out) /\ ~IsEmpty(b.out)
        /\ dirty = {b.ya}

\* C9: corr2d is deterministic and history-independent: any two calls of a
\* session given equal X and equal K end alike, with equal grids.
C9_Deterministic ==
    \A a \in log, b \in log :
        (a.x = b.x /\ a.k = b.k) => (a.ok = b.ok /\ a.out = b.out)

\* Two calls with equal arguments returned a non-empty grid, with a call on
\* another input and a write in between or before.
C9_Witness ==
    \E a \in log, b \in log, c \in log :
        /\ a.n < c.n /\ c.n < b.n
        /\ a.x = b.x /\ a.k = b.k /\ c.x # a.x
        /\ a.ok /\ b.ok /\ ~IsEmpty(b.out)
        /\ dirty # {}

\* C10: the output cells are independent: with the assignments Y[i, j] = ...
\* executed in any order, every cell assigned so far holds what the
\* row-major loops give it, X and K are as they were, and so the grid about
\* to be returned is the grid the row-major loops return.
C10_AnyOrder ==
    pc \in {"for", "return"} =>
        LET start == [heap EXCEPT ![Y] = zeros(@.h, @.w)]
            final == RowMajor(start, X, K, Y, h, w, heap[Y].h * heap[Y].w)
        IN  /\ \A rc \in DOMAIN heap[Y].d \ todo : heap[Y].d[rc] = final[Y].d[rc]
            /\ \A a \in Addrs \ {Y} : heap[a] = final[a]
            /\ (pc = "return" => (todo = {} /\ heap = final))

\* An execution out of row-major order: every cell of a grid of several rows
\* and columns but the first one is assigned, and cells differ.
C10_Witness ==
    /\ pc = "for"
    /\ heap[Y].h >= 2 /\ heap[Y].w >= 2
    /\ todo = {<<0, 0>>}
    /\ heap[Y].d[<<0, 1>>] # heap[Y].d[<<1, 0>>]

\* The grid with the given rows.
FromRows(rows) ==
    [h |-> Len(rows), w |-> Len(rows[1]),
     d |-> [rc \in Cells(Len(rows), Len(rows[1])) |-> rows[rc[1] + 1][rc[2] + 1]]]

\* C11: for X = [[0,1,2],[3,4,5],[6,7,8]] and K = [[0,1],[2,3]], corr2d(X, K)
\* returns exactly [[19,25],[37,43]].
C11_WorkedExample ==
    \A rec \in log :
        (rec.x = FromRows(<<(<<0, 1, 2>>), (<<3, 4, 5>>), (<<6, 7, 8>>)>>)
            /\ rec.k = FromRows(<<(<<0, 1>>), (<<2, 3>>)>>))
        => (rec.ok /\ rec.out = FromRows(<<(<<19, 25>>), (<<37, 43>>)>>))

\* corr2d has returned for the worked example.
C11_Witness ==
    \E rec \in log :
        /\ rec.x = FromRows(<<(<<0, 1, 2>>), (<<3, 4, 5>>), (<<6, 7, 8>>)>>)
        /\ rec.k = FromRows(<<(<<0, 1>>), (<<2, 3>>)>>)
        /\ rec.ok

\* The 6x8 grid of ones with columns 2..5 set to zero, row by row.
EdgeRow == <<1, 1, 0, 0, 0, 0, 1, 1>>
EdgeRows == FromRows(<<EdgeRow, EdgeRow, EdgeRow, EdgeRow, EdgeRow, EdgeRow>>)

\* C12: for X the 6x8 grid of ones with columns 2..5 set to zero and
\* K = [[1,-1]], corr2d(X, K) is a 6x7 grid whose every row has 1 at column 1,
\* -1 at column 5 and 0 in every other column.
C12_EdgeDetection ==
    \A rec \in log :
        (rec.x = EdgeRows /\ rec.k = FromRows(<<(<<1, 0 - 1>>)>>))
        => /\ rec.ok
           /\ rec.out.h = 6 /\ rec.out.w = 7
           /\ DOMAIN rec.out.d = Cells(6, 7)
           /\ \A r \in 0 .. 5, c \in 0 .. 6 :
                  rec.out.d[<<r, c>>] = (IF c = 1 THEN 1 ELSE IF c = 5 THEN 0 - 1 ELSE 0)

\* corr2d has returned for the edge image and the edge kernel.
C12_Witness ==
    \E rec \in log : rec.x = EdgeRows /\ rec.k = FromRows(<<(<<1, 0 - 1>>)>>) /\ rec.ok

\* Every row of g holds one value.
RowConstant(g) == \A rc \in DOMAIN g.d : g.d[rc] = g.d[<<rc[1], 0>>]
AllZero(g) == \A rc \in DOMAIN g.d : g.d[rc] = 0

\* C13: for K = [[1,-1]] and every grid X whose rows are constant, corr2d(X, K)
\* is all zero; for the transpose of the 6x8 edge image it is the 8x5
\* all-zero grid.
C13_RowConstantVanishes ==
    \A rec \in log :
        /\ (rec.k = FromRows(<<(<<1, 0 - 1>>)>>) /\ RowConstant(rec.x))
           => (rec.ok /\ AllZero(rec.out))
        /\ (rec.k = FromRows(<<(<<1, 0 - 1>>)>>) /\ rec.x = Transpose(EdgeRows))
           => (rec.ok /\ rec.out = zeros(8, 5))

\* corr2d has returned for the transposed edge image, whose rows are
\* constant and differ from one another.
C13_Witness ==
    \E rec \in log :
        /\ rec.k = FromRows(<<(<<1, 0 - 1>>)>>) /\ rec.x = Transpose(EdgeRows)
        /\ RowConstant(rec.x) /\ rec.x.d[<<0, 0>>] # rec.x.d[<<2, 0>>]
        /\ rec.ok /\ ~IsEmpty(rec.out)

\* C14: for K = [[1,-1]] and every X of shape (H, W) with W >= 2,
\* corr2d(X, K)[i][j] = X[i][j] - X[i][j+1] for 0 <= i < H, 0 <= j < W-1, so a
\* cell is 0 exactly when the two horizontally adjacent elements are equal.
C14_FiniteDifference ==
    \A rec \in log :
        (rec.k = FromRows(<<(<<1, 0 - 1>>)>>) /\ rec.x.w >= 2)
        => /\ rec.ok
           /\ DOMAIN rec.out.d = Cells(rec.x.h, rec.x.w - 1)
           /\ \A r \in 0 .. rec.x.h - 1, c \in 0 .. rec.x.w - 2 :
                  /\ rec.out.d[<<r, c>>] = rec.x.d[<<r, c>>] - rec.x.d[<<r, c + 1>>]
                  /\ (rec.out.d[<<r, c>>] = 0) <=> (rec.x.d[<<r, c>>] = rec.x.d[<<r, c + 1>>])

\* corr2d has returned for the edge kernel and an input whose rows are not
\* constant, with cells of both signs.
C14_Witness ==
    \E rec \in log :
        /\ rec.k = FromRows(<<(<<1, 0 - 1>>)>>) /\ rec.x.w >= 3 /\ rec.x.h >= 2
        /\ rec.ok
        /\ \E a \in DOMAIN rec.out.d, b \in DOMAIN rec.out.d :
               rec.out.d[a] > 0 /\ rec.out.d[b] < 0

\* The inputs x1 and x2 agree on the kh x kw window of cell rc.
AgreeOnWindow(x1, x2, rc, kh, kw) ==
    \A p \in 0 .. kh - 1, q \in 0 .. kw - 1 :
        x1.d[<<rc[1] + p, rc[2] + q>>] = x2.d[<<rc[1] + p, rc[2] + q>>]

\* C15: for every two inputs X and X' of the same shape that agree on all
\* positions (i+p, j+q) with 0 <= p < kh and 0 <= q < kw, and every kernel K of
\* shape (kh, kw), corr2d(X, K)[i][j] equals corr2d(X', K)[i][j]: elements
\* outside the window never affect that cell. The calls that have ended are
\* compared whenever the session is between calls, an earlier with a later.
C15_ReceptiveField ==
    pc = "idle"
    => \A r1 \in log, r2 \in log :
           (r1.n < r2.n /\ r1.ok /\ r2.ok /\ r1.k = r2.k /\ SameShape(r1.x, r2.x))
           => /\ SameShape(r1.out, r2.out)
              /\ \A rc \in DOMAIN r1.out.d :
                     AgreeOnWindow(r1.x, r2.x, rc, r1.k.h, r1.k.w)
                     => r1.out.d[rc] = r2.out.d[rc]

\* Two calls with one kernel have returned for inputs of one shape that
\* differ outside the window of a cell and agree on it.
C15_Witness ==
    \E r1 \in log, r2 \in log :
        /\ r1.ok /\ r2.ok /\ r1.k = r2.k /\ SameShape(r1.x, r2.x)
        /\ r1.x # r2.x
        /\ r1.k.h * r1.k.w > 1
        /\ \E rc \in DOMAIN r1.out.d : AgreeOnWindow(r1.x, r2.x, rc, r1.k.h, r1.k.w)

\* C16: for every input x and weight of shape kernel_size that fits in x,
\* every cell of Conv2D.forward(x) equals corr2d(x, weight)[i][j] + bias, and
\* the output has the same shape as corr2d(x, weight).
C16_ForwardAddsBias ==
    (Len(heap) > ConvY /\ Fits(heap[ConvX], heap[ConvWeight]))
    => \E rec \in log :
           /\ rec.ok /\ rec.x = heap[ConvX] /\ rec.k = heap[ConvWeight]
           /\ SameShape(heap[ConvY + 1], rec.out)
           /\ DOMAIN heap[ConvY + 1].d = DOMAIN rec.out.d
           /\ \A rc \in DOMAIN rec.out.d :
                  heap[ConvY + 1].d[rc] = rec.out.d[rc] + heap[ConvBias].d[<<0, 0>>]

\* forward has returned for a fitting weight, a bias that is not zero and
\* an output of several cells.
C16_Witness ==
    /\ Len(heap) > ConvY
    /\ Fits(heap[ConvX], heap[ConvWeight])
    /\ heap[ConvBias].d[<<0, 0>>] # 0
    /\ heap[ConvY + 1].h * heap[ConvY + 1].w > 1

\* The device dev is one the machine has.
DeviceExists(dev) ==
    \/ dev = [type |-> "cpu"]
    \/ \E n \in 0 .. ngpus - 1 : dev = [type |-> "cuda", index |-> n]

\* C17: for every integer index i and every number n >= 0 of available GPUs,
\* try_gpu(i) returns gpu(i) if GPU i exists (0 <= i < n) and returns cpu()
\* otherwise, so the returned device always exists.
C17_TryGpu ==
    call.fn = "try_gpu"
    => /\ ret = (IF 0 <= call.i /\ call.i < ngpus
                  THEN [type |-> "cuda", index |-> call.i]
                  ELSE [type |-> "cpu"])
       /\ DeviceExists(ret)

\* C18: try_all_gpus() returns [gpu(0), ..., gpu(n-1)] in index order when
\* n >= 1 GPUs exist, or the one-element list [cpu()] if no GPU exists; the
\* returned list is never empty.
C18_TryAllGpus ==
    call.fn = "try_all_gpus"
    => /\ ret = (IF ngpus >= 1
                  THEN [n \in 1 .. ngpus |-> [type |-> "cuda", index |-> n - 1]]
                  ELSE <<[type |-> "cpu"]>>)
       /\ Len(ret) >= 1

\* The score of class k (from 1) in row r (from 1) of the score matrix t.
Score(t, r, k) == t.data[(r - 1) * t.shape[2] + k]

\* The index of the largest score of row r, the first such index on ties,
\* equals the row's label.
Correct(t, labels, r) ==
    \E k \in 1 .. t.shape[2] :
        /\ k - 1 = labels[r]
        /\ \A m \in 1 .. t.shape[2] : Score(t, r, m) <= Score(t, r, k)
        /\ \A m \in 1 .. k - 1 : Score(t, r, m) < Score(t, r, k)

NumCorrect(t, labels) == Cardinality({r \in 1 .. t.shape[1] : Correct(t, labels, r)})

\* The result of the last call of accuracy is what the claim says of it.
AccuracyAsClaimed ==
    LET t == call.Y_hat
        n == call.Y_hat.shape[1]
    IN  IF call.averaged
        THEN /\ ~ret.nan
             /\ ret.den > 0
             /\ ret.num * n = NumCorrect(t, call.Y) * ret.den
             /\ 0 <= ret.num /\ ret.num <= ret.den
        ELSE /\ Len(ret) = n
             /\ \A r \in 1 .. n : ret[r] = (IF Correct(t, call.Y, r) THEN 1 ELSE 0)
             /\ SeqSum(ret) = NumCorrect(t, call.Y)

\* C19 as stated: for every score matrix Y_hat with n rows and labels Y of
\* length n, a row counts as correct exactly when the first index of its
\* largest score equals its label; averaged=False gives the 0/1 vector of
\* length n, averaged=True the number of correct rows divided by n, between
\* 0 and 1.
C19_Accuracy == call.fn = "accuracy" => AccuracyAsClaimed

\* C19, amended: the same for every score matrix with n >= 1 rows.
C19_AccuracyNonEmpty ==
    (call.fn = "accuracy" /\ call.Y_hat.shape[1] >= 1) => AccuracyAsClaimed

\* accuracy has returned the average for two rows: one with a tie whose
\* first index is the label, one whose label is not its largest score.
C19_Witness ==
    /\ call.fn = "accuracy" /\ call.averaged
    /\ call.Y_hat.shape = <<2, 2>>
    /\ Score(call.Y_hat, 1, 1) = Score(call.Y_hat, 1, 2) /\ call.Y[1] = 0
    /\ ~Correct(call.Y_hat, call.Y, 2)
    /\ ret.num = 1 /\ ret.den = 2

\* C20 as stated: CenteredLayer.forward(X) returns X minus the mean of all
\* elements of X, so for every non-empty input the elements of the output sum
\* to zero, and centering an already centered tensor returns it unchanged;
\* for [1,2,3,4,5] the output is [-2,-1,0,1,2].
C20_Centered ==
    call.fn = "CenteredLayer"
    => LET x == call.X
           n == Len(call.X)
       IN  /\ Len(ret) = n
           /\ \A m \in 1 .. n : n * ret[m] = n * x[m] - SeqSum(x)
           /\ SeqSum(ret) = 0
           /\ call.again => ret = x
           /\ x = <<1 * Scale, 2 * Scale, 3 * Scale, 4 * Scale, 5 * Scale>>
              => ret = <<(0 - 2) * Scale, 0 - Scale, 0, Scale, 2 * Scale>>

\* C20, amended: forward returns X minus the mean as computed, the sum over
\* the count rounded to the nearest float. When the count divides the sum
\* of an integer-valued input, the mean is exact and the output sums to
\* exactly zero; a tensor whose elements sum to exactly zero is returned
\* unchanged; for [1,2,3,4,5] the output is [-2,-1,0,1,2].
C20_CenteredExact ==
    call.fn = "CenteredLayer"
    => LET x == call.X
           n == Len(call.X)
           mu == call.X[1] - ret[1]
       IN  /\ Len(ret) = n
           /\ \A m \in 1 .. n : ret[m] = x[m] - mu
           /\ 2 * (n * mu - SeqSum(x)) <= n /\ 2 * (SeqSum(x) - n * mu) <= n
           /\ (~call.again /\ SeqSum(x) % (n * Scale) = 0)
              => (n * mu = SeqSum(x) /\ SeqSum(ret) = 0)
           /\ SeqSum(x) = 0 => ret = x
           /\ x = <<1 * Scale, 2 * Scale, 3 * Scale, 4 * Scale, 5 * Scale>>
              => ret = <<(0 - 2) * Scale, 0 - Scale, 0, Scale, 2 * Scale>>

\* The layer has returned for an integer-valued input of several different
\* elements whose mean is an integer other than zero.
C20_Witness ==
    /\ call.fn = "CenteredLayer" /\ ~call.again
    /\ Len(call.X) >= 2
    /\ SeqSum(call.X) % (Len(call.X) * Scale) = 0
    /\ SeqSum(call.X) # 0
    /\ call.X[1] # call.X[2]
    /\ SeqSum(ret) = 0

\* The pair a size argument stands for: a scalar s stands for (s, s).
SizePair(x) == IF x.scalar THEN <<x.v, x.v>> ELSE <<x.v[1], x.v[2]>>

\* The patch fits the image: 1 <= ph <= h and 1 <= pw <= w.
PatchFits ==
    /\ 1 <= SizePair(net.patch_size)[1]
    /\ SizePair(net.patch_size)[1] <= SizePair(net.img_size)[1]
    /\ 1 <= SizePair(net.patch_size)[2]
    /\ SizePair(net.patch_size)[2] <= SizePair(net.img_size)[2]

\* forward has raised in the patch embedding: X is still the batch of images.
RaisedInPatchEmbedding == step = "raised" /\ Len(frame.X.shape) = 4

\* C21: for every image size (h, w) and patch size (ph, pw) with
\* 1 <= ph <= h and 1 <= pw <= w, a scalar s standing for (s, s),
\* PatchEmbedding applied to a batch of images of that size outputs a tensor of
\* shape (batch size, num_patches, num_hiddens), where num_patches is
\* (h // ph) * (w // pw), the attribute computed in __init__, and equals
\* ((h - ph) // ph + 1) * ((w - pw) // pw + 1), also when h or w is not a
\* multiple of the patch size.
C21_PatchEmbeddingShape ==
    (frame.fn = "ViT.forward" /\ PatchFits)
    => LET hh == SizePair(net.img_size)[1]
           ww == SizePair(net.img_size)[2]
           ph == SizePair(net.patch_size)[1]
           pw == SizePair(net.patch_size)[2]
       IN  /\ ~RaisedInPatchEmbedding
           /\ net.patch_embedding.num_patches = (hh \div ph) * (ww \div pw)
           /\ net.patch_embedding.num_patches
                  = ((hh - ph) \div ph + 1) * ((ww - pw) \div pw + 1)
           /\ step = "cat"
              => frame.X.shape = <<frame.image[1], net.patch_embedding.num_patches,
                                   net.num_hiddens>>

\* The patch embedding has returned for images whose height is no multiple
\* of the patch's, the patch size given as a scalar, with several patches.
C21_Witness ==
    /\ frame.fn = "ViT.forward" /\ step = "cat"
    /\ PatchFits
    /\ net.patch_size.scalar /\ ~net.img_size.scalar
    /\ SizePair(net.img_size)[1] % SizePair(net.patch_size)[1] # 0
    /\ frame.X.shape[2] >= 2

\* C22: in ViT.forward on images of the declared img_size, the sequence has
\* length num_patches + 1 after the cls token is prepended at position 0,
\* which is the length num_steps of the positional embedding it is added to;
\* the shape (batch size, num_patches + 1, num_hiddens) is unchanged after
\* each of the num_blks encoder blocks, for every num_blks >= 0; the head is
\* applied to position 0.
C22_SequenceShape ==
    frame.fn = "ViT.forward"
    => LET seq == <<frame.image[1], net.patch_embedding.num_patches + 1, net.num_hiddens>>
       IN  /\ step = "pos"
              => /\ frame.X.shape = seq
                 /\ frame.X.shape[2] = net.pos_embedding.shape[2]
                 /\ Len(frame.X.cells) = net.patch_embedding.num_patches + 1
                 /\ frame.X.cells[1] = [kind |-> "cls"]
                 /\ \A p \in 2 .. Len(frame.X.cells) : frame.X.cells[p].kind = "patch"
           /\ step = "blks"
              => /\ frame.X.shape = seq
                 /\ frame.blk \in 0 .. net.num_blks
                 /\ frame.X.cells[1] = [kind |-> "cls"]
           /\ step = "done"
              => /\ frame.blk = net.num_blks
                 /\ frame.X.shape = <<frame.image[1], NumClasses>>
                 /\ frame.X.cells = <<[kind |-> "cls"]>>
           /\ step = "raised" => RaisedInPatchEmbedding

\* forward has returned after two blocks or more on a sequence of the cls
\* token and several patches.
C22_Witness ==
    /\ frame.fn = "ViT.forward" /\ step = "done"
    /\ net.num_blks >= 2 /\ frame.blk = net.num_blks
    /\ net.patch_embedding.num_patches >= 2

\* C23: BiRNNScratch.forward on x_1..x_T returns exactly T outputs, and for
\* every time step t the t-th output is the concatenation of the forward
\* RNN's output at step t, computed after reading x_1..x_t in that order,
\* with the backward RNN's output for the same x_t, computed after reading
\* x_T..x_t in that order; each output has twice the width of one direction.
C23_BiRNNOutputs ==
    (frame.fn = "BiRNNScratch.forward" /\ step = "done")
    => LET xs == frame.inputs
           T == Len(frame.inputs)
       IN  /\ Len(frame.outputs) = T
           /\ \A t \in 1 .. T :
                  /\ frame.outputs[t].parts[1].rnn = "f_rnn"
                  /\ frame.outputs[t].parts[1].read = [n \in 1 .. t |-> xs[n]]
                  /\ frame.outputs[t].parts[2].rnn = "b_rnn"
                  /\ frame.outputs[t].parts[2].read = [n \in 1 .. T - t + 1 |-> xs[T + 1 - n]]
                  /\ frame.outputs[t].width = 2 * frame.outputs[t].parts[1].width
                  /\ frame.outputs[t].width = 2 * frame.outputs[t].parts[2].width
                  /\ frame.outputs[t].width = net.num_hiddens

\* forward has returned for a sequence of three steps or more whose first
\* and last inputs differ.
C23_Witness ==
    /\ frame.fn = "BiRNNScratch.forward" /\ step = "done"
    /\ Len(frame.inputs) >= 3
    /\ frame.inputs[1] # frame.inputs[Len(frame.inputs)]
    /\ Len(frame.outputs) = Len(frame.inputs)

Next ==
    \/ Call
    \/ Shape
    \/ Zeros
    \/ Assign
    \/ LoopEnd
    \/ Return
    \/ Raise

Spec == Init /\ [][Next]_vars

SessionNext ==
    \/ \E xa \in Addrs : SessionCall(xa)
    \/ Shape
    \/ Zeros
    \/ Assign
    \/ LoopEnd
    \/ Return
    \/ Raise
    \/ \E a \in Addrs : Write(a)

SpecSession == SessionInit /\ [][SessionNext]_vars

AnyNext ==
    \/ Call
    \/ Shape
    \/ Zeros
    \/ \E r \in 0 .. MaxDim - 1, c \in 0 .. MaxDim - 1 : AssignAny(r, c)
    \/ AnyEnd
    \/ Return
    \/ Raise

SpecAny == AnyInit /\ [][AnyNext]_vars

LinNext ==
    \/ LinCall
    \/ Shape
    \/ Zeros
    \/ Assign
    \/ LoopEnd
    \/ Return
    \/ Raise

SpecLin == LinInit /\ [][LinNext]_vars


NotebookNext ==
    \/ Call
    \/ Shape
    \/ Zeros
    \/ Assign
    \/ LoopEnd
    \/ Return

SpecNotebook == NotebookInit /\ [][NotebookNext]_vars

ConvNext ==
    \/ Forward
    \/ Shape
    \/ Zeros
    \/ Assign
    \/ LoopEnd
    \/ Return
    \/ Raise
    \/ AddBias

SpecConv == ConvInit /\ [][ConvNext]_vars

GpuNext ==
    \/ \E idx \in (0 - MaxIndex) .. MaxIndex : TryGpu(idx)
    \/ TryAllGpus

SpecGpu == GpuInit /\ [][GpuNext]_vars

AccuracyNext == Accuracy

SpecAccuracy == AccuracyInit /\ [][AccuracyNext]_vars

CenteredNext ==
    \/ Layer(ExampleTensor)
    \/ \E n \in 1 .. MaxLen :
           \E v \in [1 .. n -> (0 - MaxElem) .. MaxElem] : Layer([m \in 1 .. n |-> Float(v[m])])
    \/ LayerAgain

SpecCentered == CenteredInit /\ [][CenteredNext]_vars

ViTNext ==
    \/ ViTForward
    \/ PatchEmbed
    \/ CatCls
    \/ AddPos
    \/ Blk
    \/ ApplyHead

SpecViT == ViTInit /\ [][ViTNext]_vars

BiNext ==
    \/ BiForward
    \/ FRnn
    \/ BRnn
    \/ CatOutputs

SpecBiRNN == BiInit /\ [][BiNext]_vars
====
